---- MODULE Spec2Model ----
(***************************************************************************)
(* A model of download-weverse.py: main's walk over the artist and the     *)
(* moments feed, the worker pool that maps download_post over the posts    *)
(* of one page, download_post's staging directory and its publication by   *)
(* move + rename, and the exit path of the script.                         *)
(*                                                                         *)
(* Inputs of the program are drawn where the program reads them and are    *)
(* fixed from then on: an option of config.yml when main first looks it    *)
(* up (cfg), the server's answer to a page request per feed and cursor     *)
(* (script), the outcome of fetching one URL (assets).  A second run of    *)
(* the script therefore sees the configuration and the feed of the first.  *)
(*                                                                         *)
(* The two pure functions of download_post that work on the characters of  *)
(* their input, the extension of an asset URL and the name of a bundle,    *)
(* are also applied to drawn inputs in specifications of their own         *)
(* (SpecExt, SpecNames).  The videos walk of l.228-251 is switched off:    *)
(* config.yml holds no downloadVideos.                                     *)
(***************************************************************************)
EXTENDS Integers, Sequences, FiniteSets, TLC

\* ------------------------------------------------------------- bounds
MaxProcs   == 2   \* largest numProcesses the configuration may hold
MaxPageLen == 2   \* most posts the server puts in one page
MaxBudget  == 2   \* largest recentArtist / recentMoments
MaxFaults  == 1   \* failing requests and worker crashes injected per behaviour
MaxRuns    == 2   \* the script is run at most this many times on one disk
MaxPathLen == 3   \* longest path of a drawn asset URL, in characters
MaxIdLen   == 3   \* longest id of a drawn feed item, in characters

\* ------------------------------------------------- program constants
DefaultPageSize == 100   \* pageSize of a walk without budget
PoolChunkFactor == 4     \* pool.map: chunksize = ceil(len / (4 * processes))

\* ---------------------------------------------------------- the feeds
\* The posts the two feeds hold, newest first.  photos is the length of
\* post['photos']; hasVideos says whether the summary record has the key
\* 'attachedVideos'; videos is the length of the detail record's
\* 'attachedVideos'; wellFormed is FALSE for a record that lacks a field
\* download_post requires or whose createdAt does not parse.  date and ts
\* are dt.strftime("%y%m%d") and str(dt) of the post's createdAt; hasBody
\* says whether the record has the key 'body'.
PostTable ==
  << [id |-> "11", user |-> "Bob", date |-> "210504", photos |-> 2,
      hasVideos |-> FALSE, videos |-> 0, wellFormed |-> TRUE,
      ts |-> "2021-05-04 10:00:00+09:00", hasBody |-> TRUE, body |-> "hello"],
     [id |-> "12", user |-> "Ann", date |-> "210503", photos |-> 1,
      hasVideos |-> TRUE, videos |-> 1, wellFormed |-> TRUE,
      ts |-> "2021-05-03 09:30:00+09:00", hasBody |-> FALSE, body |-> "unused"],
     [id |-> "13", user |-> "Bob", date |-> "210502", photos |-> 0,
      hasVideos |-> FALSE, videos |-> 0, wellFormed |-> TRUE,
      ts |-> "2021-05-02 23:59:59+09:00", hasBody |-> TRUE, body |-> "a\nb"],
     [id |-> "21", user |-> "Bob", date |-> "210504", photos |-> 1,
      hasVideos |-> FALSE, videos |-> 0, wellFormed |-> TRUE,
      ts |-> "2021-05-04 12:00:00+09:00", hasBody |-> TRUE, body |-> ""],
     [id |-> "22", user |-> "Ann", date |-> "210501", photos |-> 0,
      hasVideos |-> FALSE, videos |-> 0, wellFormed |-> FALSE,
      ts |-> "2021-05-01 08:00:00+09:00", hasBody |-> FALSE, body |-> "unused"] >>

Artist  == 1
Moments == 2
Feeds   == {Artist, Moments}
\* Indices into PostTable, in the order the feed serves them.
FeedPosts == << <<1, 2, 3>>, <<4, 5>> >>
PostIds   == 1..Len(PostTable)

Min(a, b) == IF a < b THEN a ELSE b

\* ------------------------------------------------ configuration values
\* A value of config.yml: absent, an integer, a string or a boolean.
NoneV     == [kind |-> "none"]
IntV(n)   == [kind |-> "int", n |-> n]
StrV(s)   == [kind |-> "str", s |-> s]
BoolV(b)  == [kind |-> "bool", b |-> b]
Unread    == [kind |-> "unread"]

Options == {"file", "numProcesses", "cookiesFile", "artist",
            "artistDownloadPath", "momentsDownloadPath",
            "recentArtist", "recentMoments", "downloadVideos", "keepOpen"}

\* What config.yml may hold for an option.  "file" stands for config.yml
\* itself: present and parseable, or not.
OptDomain(k) ==
  CASE k = "file"                -> {StrV("config.yml"), NoneV}
    [] k = "numProcesses"        -> {NoneV, StrV("all")} \cup {IntV(n) : n \in 0..MaxProcs}
    [] k = "cookiesFile"         -> {StrV("cookies.txt"), NoneV}
    [] k = "artist"              -> {StrV("Artist"), NoneV}
    [] k = "artistDownloadPath"  -> {StrV("posts"), NoneV}
    [] k = "momentsDownloadPath" -> {StrV("moments"), NoneV}
    [] k = "recentArtist"        -> {NoneV, StrV("all")} \cup {IntV(n) : n \in 0..MaxBudget}
    [] k = "recentMoments"       -> {NoneV, StrV("all")} \cup {IntV(n) : n \in 0..MaxBudget}
    [] k = "downloadVideos"      -> {NoneV}
    [] k = "keepOpen"            -> {NoneV, BoolV(TRUE), BoolV(FALSE)}

PathOption(f)   == IF f = Artist THEN "artistDownloadPath" ELSE "momentsDownloadPath"
BudgetOption(f) == IF f = Artist THEN "recentArtist" ELSE "recentMoments"

VARIABLES
  cfg,            \* config.yml as far as the program has read it: option -> value
  script,         \* the server's page answers so far: <<feed, cursor>> -> answer
  assets,         \* the outcome of fetching a URL so far: url -> "ok" | "bad"
  faults,         \* failing requests and crashes injected so far
  run,            \* which run of the script this is
  pc,             \* main's position
  dwarg,          \* the code main passed to dwexit, -1 before the call
  exitcode,       \* the exit status, -1 while the process runs
  num_processes,  \* main's num_processes
  artist_id,      \* main's artist_id, "unbound" until the loop at l.173 binds it
  feed,           \* the feed main is walking, 0 before the first walk
  dl_path,        \* artist_path / moments_path of the walk
  last_id,        \* main's last_id
  remain,         \* posts_remain / moments_remain
  page,           \* the page answer main holds: posts, ended, lastId
  queue,          \* pool.map's chunks no worker has taken yet
  mapfailed,      \* pool.map's result holds an exception
  wk,             \* the pool's worker processes
  disk,           \* the bundles under their final names: <<dir, name>> -> files
  orphans,        \* staging directories no process owns any more
  infoReq,        \* history: this run issued the community-info request
  pagelog,        \* history: this run's page requests and their answers
  fetched,        \* history: asset and item-detail URLs this run requested
  calls,          \* history: how often this run called download_post: post -> count
  done,           \* history: feeds whose walk this run left through break
  disk1,          \* history: disk when the first run exited
  prompted,       \* history: dwexit waited for Enter before this run's exit
  probe,          \* the drawn input of a pure function, NoProbe in a run of the script
  reply           \* what the function made of probe, NoProbe before it is applied

vars == <<cfg, script, assets, faults, run, pc, dwarg, exitcode, num_processes,
          artist_id, feed, dl_path, last_id, remain, page, queue, mapfailed,
          wk, disk, orphans, infoReq, pagelog, fetched, calls, done, disk1,
          prompted, probe, reply>>

mainVars == <<num_processes, artist_id, feed, dl_path, last_id, remain, page>>
poolVars == <<queue, mapfailed, wk>>
fsVars   == <<disk, orphans>>
histVars == <<infoReq, pagelog, fetched, calls, done, disk1>>
inputVars == <<cfg, script, assets, faults>>
pureVars == <<probe, reply>>
\* Everything a run of the script reads or writes.
scriptVars == <<inputVars, run, pc, dwarg, exitcode, mainVars, poolVars, fsVars,
                histVars, prompted>>

\* ------------------------------------------------------- naming, files
\* ''.join of the pieces of a text.
RECURSIVE Str(_)
Str(cs) == IF cs = <<>> THEN "" ELSE Head(cs) \o Str(Tail(cs))

\* f'{i:02d}'
Pad2(i) == IF i < 10 THEN "0" \o ToString(i) ELSE ToString(i)

\* Mutant: the bundle is named after the day of the download, not after
\* the post's createdAt.
FilenamePrefix_PerRun(p) ==
  (IF run = 1 THEN "261104" ELSE "261105") \o "_" \o PostTable[p].id \o "_" \o PostTable[p].user

\* Mutant: the three fields are joined without a separator.
FilenamePrefixOf_Unseparated(date_str, post_id, user) == date_str \o post_id \o user

\* download_post l.64: f'{date_str}_{post_id}_{user}'
FilenamePrefixOf(date_str, post_id, user) == date_str \o "_" \o post_id \o "_" \o user

\* filename_prefix of each post of the feeds.
Prefixes ==
  [p \in PostIds |-> FilenamePrefixOf(PostTable[p].date, PostTable[p].id, PostTable[p].user)]

FilenamePrefix(p) == Prefixes[p]

\* download_post l.65: os.path.join(download_dir, filename_prefix)
DirPath(dir, p) == <<dir, FilenamePrefix(p)>>

PhotoUrl(p, i)  == <<PostTable[p].id, "photo", i>>
VideoUrl(p, i)  == <<PostTable[p].id, "video", i>>
DetailUrl(p)    == <<PostTable[p].id, "post", 0>>

\* The text of photo['orgImgUrl'] / video['videoUrl'] for the posts of
\* PostTable, cut into pieces; a '.' is a piece of its own.
UrlText(u) ==
  <<"https://", "cdn", ".", "weverse", ".", "io", "/", u[1], "/", u[2], ToString(u[3]),
    ".", IF u[2] = "photo" THEN "jpg" ELSE "mp4">>

\* l.77 and l.93: re.match(r'.*\.(?P<ext>.+)$', url) on the whole URL.  The
\* greedy .* gives way until it ends before the last '.' that has a
\* character after it, and ext is everything behind that '.'; without such
\* a '.' the match is None.
MatchExt(s) ==
  LET dots == {k \in 1..(Len(s) - 1) : s[k] = "."}
  IN  IF dots = {} THEN [matched |-> FALSE, ext |-> <<>>]
      ELSE [matched |-> TRUE,
            ext |-> SubSeq(s, (CHOOSE k \in dots : \A j \in dots : j <= k) + 1, Len(s))]

\* Mutant: enumerate(post['photos'], 1).
PhotoFile_FromOne(p, i) ==
  [name |-> FilenamePrefix(p) \o "_img" \o Pad2(i + 1) \o "."
              \o Str(MatchExt(UrlText(PhotoUrl(p, i))).ext),
   src  |-> PhotoUrl(p, i)]

\* l.81 and l.97: the file download_media writes for photo / video i: its
\* name in the staging directory and the URL whose content it holds.
PhotoFile(p, i) ==
  [name |-> FilenamePrefix(p) \o "_img" \o Pad2(i) \o "."
              \o Str(MatchExt(UrlText(PhotoUrl(p, i))).ext),
   src  |-> PhotoUrl(p, i)]
VideoFile(p, i) ==
  [name |-> FilenamePrefix(p) \o "_vid" \o Pad2(i) \o "."
              \o Str(MatchExt(UrlText(VideoUrl(p, i))).ext),
   src  |-> VideoUrl(p, i)]

\* Mutant: write_content without .lower().
Lower_Not(s) == s

\* str.lower() on the artist names config.yml may hold.
Lower(s) == CASE s = "Artist" -> "artist" [] OTHER -> s

\* l.59: post.get('body', '')
Body(p) == IF PostTable[p].hasBody THEN PostTable[p].body ELSE ""

\* l.124-129 write_content: the three print calls, with config c.
ContentLines(c, p) ==
  << "https://weverse.io/" \o Lower(c["artist"].s) \o "/artist/" \o PostTable[p].id,
     PostTable[p].user \o " (" \o PostTable[p].ts \o "):",
     Body(p) >>

\* l.102-103: the content file.
ContentFile(c, p) ==
  [name |-> FilenamePrefix(p) \o "_content.txt", text |-> ContentLines(c, p)]

\* The photo and video files download_post writes for each post.
MediaFiles ==
  [p \in PostIds |->
     {PhotoFile(p, i) : i \in 0..(PostTable[p].photos - 1)}
       \cup (IF PostTable[p].hasVideos
               THEN {VideoFile(p, i) : i \in 0..(PostTable[p].videos - 1)} ELSE {})]

\* Every file download_post writes for post p before it publishes.
CompleteBundle(p) == MediaFiles[p] \cup {ContentFile(cfg, p)}

\* ------------------------------------------------------------- workers
IdleWorker == [st |-> "idle", post |-> 0, i |-> 0, files |-> {}, loc |-> "none",
               todo |-> <<>>, existed |-> FALSE, nreq |-> 0, ndetail |-> 0,
               mediaFailed |-> FALSE]

Workers == 1..MaxProcs
Busy(w) == wk[w].st \in {"begin", "photos", "detail", "videos", "content", "move", "rename"}

\* The state in which the script is started for the first time.
Start ==
  /\ cfg = [k \in Options |-> Unread]
  /\ script = <<>>
  /\ assets = <<>>
  /\ faults = 0
  /\ run = 1
  /\ pc = "read_config"
  /\ dwarg = -1
  /\ exitcode = -1
  /\ num_processes = 0
  /\ artist_id = "unbound"
  /\ feed = 0
  /\ dl_path = ""
  /\ last_id = ""
  /\ remain = NoneV
  /\ page = [posts |-> <<>>, ended |-> FALSE, lastId |-> ""]
  /\ queue = <<>>
  /\ mapfailed = FALSE
  /\ wk = [w \in Workers |-> IdleWorker]
  /\ disk = <<>>
  /\ orphans = {}
  /\ infoReq = FALSE
  /\ pagelog = <<>>
  /\ fetched = {}
  /\ calls = <<>>
  /\ done = {}
  /\ disk1 = <<>>
  /\ prompted = FALSE

\* In a run of the script no pure function is probed.
NoProbe == [kind |-> "none"]

Init == Start /\ probe = NoProbe /\ reply = NoProbe

\* ------------------------------------------------------- the requests
InfoUrl == <<"communities", "info", 0>>

\* The outcome of requesting url u: what it was before, or drawn now.  The
\* community list may also lack the artist ("nomatch").
Outcomes(u) ==
  IF u \in DOMAIN assets THEN {assets[u]}
  ELSE {"ok"} \cup (IF u = InfoUrl THEN {"nomatch"} ELSE {})
         \cup (IF faults < MaxFaults THEN {"bad"} ELSE {})

Record(u, o) == IF u \in DOMAIN assets THEN assets ELSE (u :> o) @@ assets
Charge(u, o) == IF u \notin DOMAIN assets /\ o = "bad" THEN faults + 1 ELSE faults

\* ---------------------------------------------------------------- main
\* config[k] / config.get(k): the option's value, drawn on its first read.
ReadOpt(c, k, v) ==
  IF v \in OptDomain(k) /\ c[k] \in {Unread, v} THEN [c EXCEPT ![k] = v] ELSE c
CanRead(c, k, v) == v \in OptDomain(k) /\ c[k] \in {Unread, v}

\* An exception that reaches main's caller: the except clause of l.257.
Raise == pc' = "error"

\* l.163-165: open and parse config.yml, num_processes = int(config.get(...)).
\* int(None) raises TypeError, int('all') raises ValueError.
ReadConfig ==
  /\ pc = "read_config"
  /\ \E fv \in OptDomain("file"), nv \in OptDomain("numProcesses") :
       /\ CanRead(cfg, "file", fv)
       /\ IF fv = NoneV
            THEN /\ nv = NoneV
                 /\ cfg' = ReadOpt(cfg, "file", fv)
                 /\ Raise
                 /\ UNCHANGED num_processes
            ELSE /\ CanRead(cfg, "numProcesses", nv)
                 /\ cfg' = ReadOpt(ReadOpt(cfg, "file", fv), "numProcesses", nv)
                 /\ IF nv.kind = "int"
                      THEN num_processes' = nv.n /\ pc' = "init_session"
                      ELSE Raise /\ UNCHANGED num_processes
  /\ UNCHANGED <<script, assets, faults, run, dwarg, exitcode, artist_id, feed,
                 dl_path, last_id, remain, page>>
  /\ UNCHANGED <<poolVars, fsVars, histVars>>
  /\ UNCHANGED <<prompted, pureVars>>

\* l.167 and l.29-45: init_session reads config['cookiesFile'] (KeyError when
\* the option is absent) and loads the cookie jar.
InitSession ==
  /\ pc = "init_session"
  /\ \E v \in OptDomain("cookiesFile") :
       /\ CanRead(cfg, "cookiesFile", v)
       /\ cfg' = ReadOpt(cfg, "cookiesFile", v)
       /\ IF v = NoneV THEN Raise ELSE pc' = "get_info"
  /\ UNCHANGED <<script, assets, faults, run, dwarg, exitcode>>
  /\ UNCHANGED <<mainVars, poolVars, fsVars, histVars>>
  /\ UNCHANGED <<prompted, pureVars>>

\* l.170-175: GET communities/info, then compare config['artist'] with each
\* community's name; artist_id stays unbound when none matches.
GetInfo ==
  /\ pc = "get_info"
  /\ infoReq' = TRUE
  /\ \E o \in Outcomes(InfoUrl), v \in OptDomain("artist") :
       /\ assets' = Record(InfoUrl, o)
       /\ faults' = Charge(InfoUrl, o)
       /\ IF o = "bad"                 \* the request or r.json() raises
            THEN /\ v = NoneV
                 /\ Raise
                 /\ UNCHANGED <<cfg, artist_id>>
            ELSE /\ CanRead(cfg, "artist", v)
                 /\ cfg' = ReadOpt(cfg, "artist", v)
                 /\ IF v = NoneV
                      THEN Raise /\ UNCHANGED artist_id
                      ELSE /\ artist_id' = IF o = "ok" THEN "bound" ELSE "unbound"
                           /\ pc' = "start_walk"
  /\ UNCHANGED <<script, run, dwarg, exitcode, num_processes, feed,
                 dl_path, last_id, remain, page>>
  /\ UNCHANGED <<poolVars, fsVars, pagelog, fetched, calls, done, disk1>>
  /\ UNCHANGED <<prompted, pureVars>>

\* Mutant: a walk starts from whatever cursor main holds.
FirstCursor_Kept == last_id

\* l.181 and l.206: last_id = ''
FirstCursor == ""

\* l.178-182 and l.203-207: the destination directory of the next feed
\* (KeyError when the option is absent), makedirs, last_id = '' and the budget.
StartWalk ==
  /\ pc = "start_walk"
  /\ feed' = feed + 1
  /\ \E pv \in OptDomain(PathOption(feed + 1)), bv \in OptDomain(BudgetOption(feed + 1)) :
       /\ CanRead(cfg, PathOption(feed + 1), pv)
       /\ IF pv = NoneV
            THEN /\ bv = NoneV
                 /\ cfg' = ReadOpt(cfg, PathOption(feed + 1), pv)
                 /\ Raise
                 /\ UNCHANGED <<dl_path, last_id, remain>>
            ELSE /\ CanRead(cfg, BudgetOption(feed + 1), bv)
                 /\ cfg' = ReadOpt(ReadOpt(cfg, PathOption(feed + 1), pv),
                                   BudgetOption(feed + 1), bv)
                 /\ dl_path' = pv.s
                 /\ last_id' = FirstCursor
                 /\ remain' = bv
                 /\ pc' = "fetch"
  /\ UNCHANGED <<script, assets, faults, run, dwarg, exitcode, num_processes,
                 artist_id, page>>
  /\ UNCHANGED <<poolVars, fsVars, histVars>>
  /\ UNCHANGED <<prompted, pureVars>>

\* --------------------------------------------------------- the server
\* The cursor a page answer carries is the id of its last post; '' starts
\* the feed.  PosOf is how many posts of feed f precede the cursor's successor.
PosOf(f, c) ==
  LET ks == {k \in 1..Len(FeedPosts[f]) : PostTable[FeedPosts[f][k]].id = c}
  IN  IF ks = {} THEN 0 ELSE CHOOSE k \in ks : TRUE

FailedAnswer == [ok |-> FALSE, n |-> 0, ended |-> FALSE]

\* What the server may answer to a page request of feed f from cursor c: a
\* failure, or the next n posts with an isEnded flag.  pageSize does not
\* bind the server.  An empty page ends the feed.
Answers(f, c) ==
  {[ok |-> TRUE, n |-> n, ended |-> e] :
     n \in 0..Min(MaxPageLen, Len(FeedPosts[f]) - PosOf(f, c)), e \in BOOLEAN}
  \ {[ok |-> TRUE, n |-> 0, ended |-> FALSE]}

PagePosts(f, c, n) == SubSeq(FeedPosts[f], PosOf(f, c) + 1, PosOf(f, c) + n)
PageLastId(f, c, n) == IF n = 0 THEN c ELSE PostTable[FeedPosts[f][PosOf(f, c) + n]].id

\* Mutant: every request asks for the default page size.
PageSize_Default(rem) == IntV(DefaultPageSize)

\* l.184-187: the pageSize of the request.
PageSize(rem) == IF rem.kind # "none" THEN rem ELSE IntV(DefaultPageSize)

\* l.191-192: if posts_remain is not None: posts_remain -= len(posts)
\* (not evaluated for a budget that is no number: that raises TypeError).
Decrement(rem, n) == IF rem.kind = "int" THEN IntV(rem.n - n) ELSE rem

\* l.198: ended or (posts_remain is not None and posts_remain <= 0)
WalkEnds(ended, rem) == ended \/ (rem.kind = "int" /\ rem.n <= 0)

\* l.184-193: one page request and what main keeps of the answer.
FetchPage ==
  /\ pc = "fetch"
  /\ IF artist_id = "unbound"
       THEN /\ Raise            \* l.185: UnboundLocalError
            /\ UNCHANGED <<script, faults, pagelog, page, remain>>
       ELSE \E a \in Answers(feed, last_id) \cup {FailedAnswer} :
              /\ IF <<feed, last_id>> \in DOMAIN script
                   THEN a = script[<<feed, last_id>>] /\ UNCHANGED <<script, faults>>
                   ELSE /\ a.ok \/ faults < MaxFaults
                        /\ script' = (<<feed, last_id>> :> a) @@ script
                        /\ faults' = IF a.ok THEN faults ELSE faults + 1
              /\ pagelog' = Append(pagelog,
                   [feed |-> feed, size |-> PageSize(remain), from |-> last_id,
                    ok |-> a.ok, n |-> a.n, ended |-> a.ended,
                    lastId |-> PageLastId(feed, last_id, a.n)])
              /\ IF a.ok /\ remain.kind # "str"
                   THEN /\ page' = [posts |-> PagePosts(feed, last_id, a.n),
                                    ended |-> a.ended,
                                    lastId |-> PageLastId(feed, last_id, a.n)]
                        /\ remain' = Decrement(remain, a.n)
                        /\ pc' = "pool"
                   ELSE Raise /\ UNCHANGED <<page, remain>>
  /\ UNCHANGED <<cfg, assets, run, dwarg, exitcode, num_processes, artist_id,
                 feed, dl_path, last_id>>
  /\ UNCHANGED <<poolVars, fsVars, infoReq, fetched, calls, done, disk1>>
  /\ UNCHANGED <<prompted, pureVars>>

\* ------------------------------------------------------------ the pool
\* multiprocessing.Pool.map's default chunksize.
ChunkSize(len, procs) ==
  IF len = 0 THEN 0
  ELSE (len \div (procs * PoolChunkFactor))
         + (IF len % (procs * PoolChunkFactor) = 0 THEN 0 ELSE 1)

RECURSIVE Chunks(_, _)
Chunks(posts, size) ==
  IF posts = <<>> THEN <<>>
  ELSE <<SubSeq(posts, 1, Min(size, Len(posts)))>>
         \o Chunks(SubSeq(posts, Min(size, Len(posts)) + 1, Len(posts)), size)

\* l.195-197: Pool(num_processes) raises ValueError below one process;
\* pool.map cuts the posts into chunks for the workers.
PoolMap ==
  /\ pc = "pool"
  /\ IF num_processes < 1
       THEN Raise /\ UNCHANGED poolVars
       ELSE /\ queue' = Chunks(page.posts, ChunkSize(Len(page.posts), num_processes))
            /\ mapfailed' = FALSE
            /\ wk' = [w \in Workers |-> IdleWorker]
            /\ pc' = "map"
  /\ UNCHANGED <<inputVars, run, dwarg, exitcode, mainVars, fsVars, histVars>>
  /\ UNCHANGED <<prompted, pureVars>>

\* Mutant: the map returns as soon as every chunk has been handed out
\* (map_async without a wait).
AllChunksDone_OnceDispatched == queue = <<>>

\* l.197: every chunk of the page has been taken and worked off.
AllChunksDone ==
  /\ queue = <<>>
  /\ \A w \in Workers : wk[w].st \in {"idle", "done", "failed"} /\ wk[w].todo = <<>>

\* pool.map returns once every chunk has been worked off, and raises the
\* first exception a chunk ended with.  The with-block then ends the pool.
MapReturn ==
  /\ pc = "map"
  /\ AllChunksDone
  /\ IF mapfailed THEN Raise ELSE pc' = "check"
  /\ UNCHANGED <<inputVars, run, dwarg, exitcode, mainVars, fsVars, histVars, poolVars>>
  /\ UNCHANGED <<prompted, pureVars>>

\* l.198-200, and after the last walk l.228: break, or take the next cursor.
CheckEnd ==
  /\ pc = "check"
  /\ IF WalkEnds(page.ended, remain)
       THEN /\ done' = done \cup {feed}
            /\ UNCHANGED last_id
            /\ IF feed = Artist
                 THEN pc' = "start_walk" /\ UNCHANGED cfg
                 ELSE /\ cfg' = ReadOpt(cfg, "downloadVideos", NoneV)
                      /\ pc' = "complete"
       ELSE /\ last_id' = page.lastId
            /\ pc' = "fetch"
            /\ UNCHANGED <<done, cfg>>
  /\ UNCHANGED <<script, assets, faults, run, dwarg, exitcode, num_processes,
                 artist_id, feed, dl_path, remain, page>>
  /\ UNCHANGED <<poolVars, fsVars, infoReq, pagelog, fetched, calls, disk1>>
  /\ UNCHANGED <<prompted, pureVars>>

\* ------------------------------------------------------------ the exit
\* l.260-261: main returned.
Complete ==
  /\ pc = "complete"
  /\ pc' = "dwexit"
  /\ dwarg' = 0
  /\ UNCHANGED <<inputVars, run, exitcode, mainVars, poolVars, fsVars, histVars>>
  /\ UNCHANGED <<prompted, pureVars>>

\* Mutant: the except clause exits with status zero.
Except_ExitsZero ==
  /\ pc = "error"
  /\ pc' = "dwexit"
  /\ dwarg' = 0
  /\ UNCHANGED <<inputVars, run, exitcode, mainVars, poolVars, fsVars, histVars>>
  /\ UNCHANGED <<prompted, pureVars>>

\* l.257-259: main raised an Exception.
Except ==
  /\ pc = "error"
  /\ pc' = "dwexit"
  /\ dwarg' = 1
  /\ UNCHANGED <<inputVars, run, exitcode, mainVars, poolVars, fsVars, histVars>>
  /\ UNCHANGED <<prompted, pureVars>>

\* l.27: the module-level config, the dict dwexit looks at.  main binds a
\* local of the same name (l.164), so the global stays {}.
DwexitConfig == <<>>

\* l.49: 'keepOpen' not in config or config['keepOpen']
KeepOpen(c) == "keepOpen" \notin DOMAIN c \/ c["keepOpen"]

\* l.48-51: dwexit waits for Enter when KeepOpen says so, then exits with
\* its argument.  input() is taken to return: the step is the moment Enter
\* is pressed.  What config.yml holds for keepOpen is drawn here, where the
\* flag is meant to take effect; a missing config.yml holds nothing.
Dwexit ==
  /\ pc = "dwexit"
  /\ pc' = "exited"
  /\ exitcode' = dwarg
  /\ \E kv \in OptDomain("keepOpen") :
       /\ CanRead(cfg, "keepOpen", kv)
       /\ cfg["file"] \in {NoneV, Unread} => kv = NoneV
       /\ cfg' = ReadOpt(cfg, "keepOpen", kv)
  /\ prompted' = KeepOpen(DwexitConfig)
  /\ disk1' = IF run = 1 THEN disk ELSE disk1
  /\ UNCHANGED <<script, assets, faults, run, dwarg, mainVars, poolVars, fsVars,
                 infoReq, pagelog, fetched, calls, done>>
  /\ UNCHANGED pureVars

\* The script is started again on the same disk, configuration and feed.
\* Only keepOpen, which has no part in what a run downloads, is looked up
\* anew at the next exit.
Rerun ==
  /\ pc = "exited"
  /\ run < MaxRuns
  /\ run' = run + 1
  /\ pc' = "read_config"
  /\ dwarg' = -1
  /\ exitcode' = -1
  /\ num_processes' = 0
  /\ artist_id' = "unbound"
  /\ feed' = 0
  /\ dl_path' = ""
  /\ last_id' = ""
  /\ remain' = NoneV
  /\ page' = [posts |-> <<>>, ended |-> FALSE, lastId |-> ""]
  /\ infoReq' = FALSE
  /\ pagelog' = <<>>
  /\ fetched' = {}
  /\ calls' = <<>>
  /\ done' = {}
  /\ queue' = <<>>
  /\ mapfailed' = FALSE
  /\ wk' = [w \in Workers |-> IdleWorker]
  /\ prompted' = FALSE
  /\ cfg' = [cfg EXCEPT !["keepOpen"] = Unread]
  /\ UNCHANGED <<script, assets, faults, fsVars, disk1>>
  /\ UNCHANGED pureVars

\* ------------------------------------------------------- download_post
\* Mutant: download_post without the test of l.68.
AlreadyDownloaded_Never(dir, p) == FALSE

\* l.68: os.path.exists(dir_path)
AlreadyDownloaded(dir, p) == DirPath(dir, p) \in DOMAIN disk

\* Mutant: the staging directory is published before write_content ran.
AfterPhotos_SkipsContent(p) == IF PostTable[p].hasVideos THEN "detail" ELSE "move"

\* Where download_post goes on after l.69, after the photos, after the detail.
AfterPhotos(p) == IF PostTable[p].hasVideos THEN "detail" ELSE "content"
AfterCheck(p)  == IF PostTable[p].photos > 0 THEN "photos" ELSE AfterPhotos(p)
AfterDetail(p) == IF PostTable[p].videos > 0 THEN "videos" ELSE "content"

\* An exception leaves download_post: the with-block removes temp_dir, the
\* rest of the worker's chunk is dropped and pool.map will raise.
Failed(r, media) ==
  [r EXCEPT !.st = "failed", !.files = {}, !.loc = "none", !.todo = <<>>,
            !.mediaFailed = media]

\* Mutant: download_media without the test of r.ok: nothing is raised and
\* download_post goes on.
MediaResult_NoRaise(r, o, file, i, st) ==
  IF o = "ok"
    THEN [r EXCEPT !.files = @ \cup {file}, !.nreq = @ + 1, !.i = i, !.st = st]
    ELSE [r EXCEPT !.nreq = @ + 1, !.i = i, !.st = st, !.mediaFailed = TRUE]

\* l.114-121, download_media as download_post sees it: the file is in the
\* staging directory and the loop goes on (to index i, stage st), or the
\* response was not ok and the exception leaves download_post.
MediaResult(r, o, file, i, st) ==
  IF o = "ok"
    THEN [r EXCEPT !.files = @ \cup {file}, !.nreq = @ + 1, !.i = i, !.st = st]
    ELSE Failed([r EXCEPT !.nreq = @ + 1], TRUE)

\* A worker that is not inside download_post.
Free(w) == wk[w].st \in {"idle", "done", "failed"}

\* A pool worker takes the next post of its chunk, or the next chunk, and
\* calls download_post: l.55 creates the staging directory.  The workers
\* are interchangeable, so of the free ones the first takes the next chunk.
Take(w) ==
  /\ pc = "map"
  /\ w <= num_processes
  /\ Free(w)
  /\ wk[w].todo # <<>> \/ (queue # <<>> /\ \A v \in 1..(w - 1) : ~Free(v))
  /\ LET chunk == IF wk[w].todo # <<>> THEN wk[w].todo ELSE Head(queue)
     IN  /\ wk' = [wk EXCEPT ![w] = [IdleWorker EXCEPT !.st = "begin",
                                       !.post = Head(chunk), !.todo = Tail(chunk),
                                       !.loc = "tmp"]]
         /\ calls' = IF Head(chunk) \in DOMAIN calls
                       THEN [calls EXCEPT ![Head(chunk)] = @ + 1]
                       ELSE (Head(chunk) :> 1) @@ calls
  /\ queue' = IF wk[w].todo # <<>> THEN queue ELSE Tail(queue)
  /\ UNCHANGED <<inputVars, run, pc, dwarg, exitcode, mainVars, mapfailed, fsVars,
                 infoReq, pagelog, fetched, done, disk1>>
  /\ UNCHANGED <<prompted, pureVars>>

\* l.56-69: the fields of the post (KeyError or ValueError on a malformed
\* record), the bundle's path, and the return when it exists.
Begin(w) ==
  /\ wk[w].st = "begin"
  /\ LET p == wk[w].post
         r == [wk[w] EXCEPT !.existed = DirPath(dl_path, p) \in DOMAIN disk]
     IN  IF ~PostTable[p].wellFormed
           THEN wk' = [wk EXCEPT ![w] = Failed(wk[w], FALSE)] /\ mapfailed' = TRUE
           ELSE /\ UNCHANGED mapfailed
                /\ IF AlreadyDownloaded(dl_path, p)
                     THEN wk' = [wk EXCEPT ![w] = [r EXCEPT !.st = "done", !.loc = "none"]]
                     ELSE wk' = [wk EXCEPT ![w] = [r EXCEPT !.st = AfterCheck(p)]]
  /\ UNCHANGED <<inputVars, run, pc, dwarg, exitcode, mainVars, queue, fsVars, histVars>>
  /\ UNCHANGED <<prompted, pureVars>>

\* l.75-82 and l.114-121: download_media writes photo i into the staging
\* directory, or raises on a response that is not ok.
Photo(w) ==
  /\ wk[w].st = "photos"
  /\ LET p == wk[w].post
         i == wk[w].i
         u == PhotoUrl(p, i)
     IN  /\ fetched' = fetched \cup {u}
         /\ \E o \in Outcomes(u) :
              /\ assets' = Record(u, o)
              /\ faults' = Charge(u, o)
              /\ wk' = [wk EXCEPT ![w] =
                    IF i + 1 < PostTable[p].photos
                      THEN MediaResult(@, o, PhotoFile(p, i), i + 1, "photos")
                      ELSE MediaResult(@, o, PhotoFile(p, i), 0, AfterPhotos(p))]
              /\ mapfailed' = (mapfailed \/ wk'[w].st = "failed")
  /\ UNCHANGED <<cfg, script, run, pc, dwarg, exitcode, mainVars, queue, fsVars,
                 infoReq, pagelog, calls, done, disk1>>
  /\ UNCHANGED <<prompted, pureVars>>

\* l.85-90: for a post with the key 'attachedVideos', a new session and the
\* GET of the post's detail record.
Detail(w) ==
  /\ wk[w].st = "detail"
  /\ LET p == wk[w].post
         u == DetailUrl(p)
     IN  /\ fetched' = fetched \cup {u}
         /\ \E o \in Outcomes(u) :
              /\ assets' = Record(u, o)
              /\ faults' = Charge(u, o)
              /\ IF o = "ok"
                   THEN /\ wk' = [wk EXCEPT ![w] =
                              [@ EXCEPT !.nreq = @ + 1, !.ndetail = @ + 1, !.i = 0,
                                        !.st = AfterDetail(p)]]
                        /\ UNCHANGED mapfailed
                   ELSE /\ wk' = [wk EXCEPT ![w] =
                              Failed([@ EXCEPT !.nreq = @ + 1, !.ndetail = @ + 1], FALSE)]
                        /\ mapfailed' = TRUE
  /\ UNCHANGED <<cfg, script, run, pc, dwarg, exitcode, mainVars, queue, fsVars,
                 infoReq, pagelog, calls, done, disk1>>
  /\ UNCHANGED <<prompted, pureVars>>

\* l.91-98 and l.114-121: download_media writes video i into the staging
\* directory, or raises.
Video(w) ==
  /\ wk[w].st = "videos"
  /\ LET p == wk[w].post
         i == wk[w].i
         u == VideoUrl(p, i)
     IN  /\ fetched' = fetched \cup {u}
         /\ \E o \in Outcomes(u) :
              /\ assets' = Record(u, o)
              /\ faults' = Charge(u, o)
              /\ wk' = [wk EXCEPT ![w] =
                    IF i + 1 < PostTable[p].videos
                      THEN MediaResult(@, o, VideoFile(p, i), i + 1, "videos")
                      ELSE MediaResult(@, o, VideoFile(p, i), 0, "content")]
              /\ mapfailed' = (mapfailed \/ wk'[w].st = "failed")
  /\ UNCHANGED <<cfg, script, run, pc, dwarg, exitcode, mainVars, queue, fsVars,
                 infoReq, pagelog, calls, done, disk1>>
  /\ UNCHANGED <<prompted, pureVars>>

\* l.101-105 and l.124-129: write_content and the staging directory's utime.
Content(w) ==
  /\ wk[w].st = "content"
  /\ wk' = [wk EXCEPT ![w] = [@ EXCEPT !.files = @ \cup {ContentFile(cfg, wk[w].post)},
                                         !.st = "move"]]
  /\ UNCHANGED <<inputVars, run, pc, dwarg, exitcode, mainVars, queue, mapfailed,
                 fsVars, histVars>>
  /\ UNCHANGED <<prompted, pureVars>>

\* l.108-109: shutil.move puts the staging directory, under its temporary
\* name, into download_dir.
Move(w) ==
  /\ wk[w].st = "move"
  /\ wk' = [wk EXCEPT ![w] = [@ EXCEPT !.loc = "dest", !.st = "rename"]]
  /\ UNCHANGED <<inputVars, run, pc, dwarg, exitcode, mainVars, queue, mapfailed,
                 fsVars, histVars>>
  /\ UNCHANGED <<prompted, pureVars>>

\* l.110-111: os.rename to the final name; it raises OSError when a
\* directory with files already has that name, and the moved staging
\* directory then stays behind in download_dir.  After the rename the
\* with-block finds temp_dir gone, which TemporaryDirectory ignores (from
\* Python 3.8 on).
Rename(w) ==
  /\ wk[w].st = "rename"
  /\ LET p == wk[w].post
     IN  IF DirPath(dl_path, p) \in DOMAIN disk
           THEN /\ wk' = [wk EXCEPT ![w] = Failed(wk[w], FALSE)]
                /\ mapfailed' = TRUE
                /\ orphans' = orphans \cup {[loc |-> "dest", post |-> p, files |-> wk[w].files]}
                /\ UNCHANGED disk
           ELSE /\ disk' = (DirPath(dl_path, p) :> wk[w].files) @@ disk
                /\ wk' = [wk EXCEPT ![w] = [@ EXCEPT !.st = "done", !.files = {},
                                                     !.loc = "none"]]
                /\ UNCHANGED <<mapfailed, orphans>>
  /\ UNCHANGED <<inputVars, run, pc, dwarg, exitcode, mainVars, queue, histVars>>
  /\ UNCHANGED <<prompted, pureVars>>

\* A worker process dies inside download_post.  Its staging directory stays
\* where it is, and pool.map never gets the chunk's result.
Crash(w) ==
  /\ Busy(w)
  /\ faults < MaxFaults
  /\ faults' = faults + 1
  /\ wk' = [wk EXCEPT ![w] = [@ EXCEPT !.st = "crashed", !.files = {}, !.loc = "none"]]
  /\ orphans' = orphans \cup {[loc |-> wk[w].loc, post |-> wk[w].post, files |-> wk[w].files]}
  /\ UNCHANGED <<cfg, script, assets, run, pc, dwarg, exitcode, mainVars, queue,
                 mapfailed, disk, histVars>>
  /\ UNCHANGED <<prompted, pureVars>>

Next ==
  \/ ReadConfig
  \/ InitSession
  \/ GetInfo
  \/ StartWalk
  \/ FetchPage
  \/ PoolMap
  \/ MapReturn
  \/ CheckEnd
  \/ Complete
  \/ Except
  \/ Dwexit
  \/ Rerun
  \/ \E w \in Workers :
       \/ Take(w)
       \/ Begin(w)
       \/ Photo(w)
       \/ Detail(w)
       \/ Video(w)
       \/ Content(w)
       \/ Move(w)
       \/ Rename(w)
       \/ Crash(w)

Spec == Init /\ [][Next]_vars

\* ------------------------------------- the extension of an asset URL
\* The asset URLs drawn, character by character: https://, a host with or
\* without a '.', a path that is empty or starts with '/', and a query or
\* none.
SeqsUpTo(S, n) == UNION {[1..k -> S] : k \in 0..n}
Scheme     == <<"h", "t", "t", "p", "s", ":", "/", "/">>
UrlHosts   == {<<"h">>, <<"h", ".", "i">>}
UrlPaths   == {<<>>} \cup {<<"/">> \o t : t \in SeqsUpTo({"a", ".", "/"}, MaxPathLen - 1)}
UrlQueries == {<<>>, <<"x">>, <<"x", ".", "y">>}
UrlProbes  == [kind : {"url"}, host : UrlHosts, path : UrlPaths, query : UrlQueries]

UrlString(u) ==
  Scheme \o u.host \o u.path \o (IF u.query = <<>> THEN <<>> ELSE <<"?">> \o u.query)

\* l.75-82 with l.114-121 for one asset whose GET is answered: match.group
\* on None raises AttributeError before the request; open(photo_path, 'wb')
\* raises after the request when the extension holds a '/', for the
\* directory the name then lies in does not exist in temp_dir; otherwise
\* the file is written under the extension.
MediaStep(s) ==
  LET m == MatchExt(s)
  IN  [kind |-> "media", matched |-> m.matched, ext |-> m.ext,
       requested |-> m.matched,
       stored |-> m.matched /\ \A k \in 1..Len(m.ext) : m.ext[k] # "/"]

InitExt == Start /\ probe \in UrlProbes /\ reply = NoProbe

ApplyExt ==
  /\ probe.kind = "url"
  /\ reply = NoProbe
  /\ reply' = MediaStep(UrlString(probe))
  /\ UNCHANGED <<scriptVars, probe>>

NextExt == ApplyExt

SpecExt == InitExt /\ [][NextExt]_vars

\* ------------------------------------------------ the path of a bundle
\* The pairs of feed items drawn: createdAt on one of two days, an id and
\* an author's nickname given character by character.  '_' may be part of
\* either.
Digits    == {"1", "2"}
ItemIds   == SeqsUpTo(Digits \cup {"_"}, MaxIdLen) \ {<<>>}
ItemUsers == {<<"B">>, <<"2", "B">>, <<"2", "_", "B">>}
ItemDates == {"210504", "210503"}
Items     == [date : ItemDates, id : ItemIds, user : ItemUsers]
NameProbes == [kind : {"items"}, dir : {"posts"}, a : Items, b : Items]

\* l.56-65: dir_path of an item in download_dir.
ItemPath(dir, it) == <<dir, FilenamePrefixOf(it.date, Str(it.id), Str(it.user))>>

InitNames == Start /\ probe \in NameProbes /\ reply = NoProbe

\* download_post computes the paths of the two items; bSkipped is the test
\* of l.68 for item b on a disk that holds the bundle of item a and nothing
\* else.
ApplyNames ==
  /\ probe.kind = "items"
  /\ reply = NoProbe
  /\ reply' = [kind |-> "paths",
               a |-> ItemPath(probe.dir, probe.a),
               b |-> ItemPath(probe.dir, probe.b),
               bSkipped |-> ItemPath(probe.dir, probe.b) \in {ItemPath(probe.dir, probe.a)}]
  /\ UNCHANGED <<scriptVars, probe>>

NextNames == ApplyNames

SpecNames == InitNames /\ [][NextNames]_vars

\* =============================================================== claims
Dirs == {"posts", "moments"}
PostUrls(p) ==
  {PhotoUrl(p, i) : i \in 0..(PostTable[p].photos - 1)}
    \cup {VideoUrl(p, i) : i \in 0..(PostTable[p].videos - 1)}
    \cup {DetailUrl(p)}

\* This run's page requests for feed f, in order.
RECURSIVE Reqs(_, _)
Reqs(log, f) ==
  IF log = <<>> THEN <<>>
  ELSE (IF Head(log).feed = f THEN <<Head(log)>> ELSE <<>>) \o Reqs(Tail(log), f)

\* The number of posts the first k answers of a walk returned.
RECURSIVE Cum(_, _)
Cum(reqs, k) == IF k = 0 THEN 0 ELSE reqs[k].n + Cum(reqs, k - 1)

BudgetActive(f) == cfg[BudgetOption(f)].kind = "int"
Budget(f)       == cfg[BudgetOption(f)].n
NoBudget(f)     == cfg[BudgetOption(f)].kind = "none"
NoNetworkYet    == ~infoReq /\ pagelog = <<>> /\ fetched = {}
Stopped         == pc \in {"error", "dwexit", "exited"}

\* C1: whatever directory stands under a final bundle name holds exactly the
\* files of the complete bundle of its post, in every state, also while
\* workers are halfway through other posts, have failed or have crashed.
C1_FinalPathAbsentOrComplete ==
  \A d \in Dirs, p \in PostIds :
    DirPath(d, p) \in DOMAIN disk => disk[DirPath(d, p)] = CompleteBundle(p)

\* C1 witness: a crashed worker left a partly filled staging directory,
\* another worker is filling its own, and a bundle is already published.
C1_Witness ==
  /\ \E o \in orphans : o.files # {} /\ o.files # CompleteBundle(o.post)
  /\ \E w \in Workers : Busy(w) /\ wk[w].files # {}
  /\ DOMAIN disk # {}

\* C2: no step changes or removes a published bundle, and a call of
\* download_post that found its bundle's path existing has returned without
\* a request and without staging a file.
C2_SkipIsSilentAndBundlesStay ==
  [][ /\ \A path \in DOMAIN disk : path \in DOMAIN disk' /\ disk'[path] = disk[path]
      /\ \A w \in Workers :
           wk'[w].existed => wk'[w].st = "done" /\ wk'[w].nreq = 0 /\ wk'[w].files = {}
    ]_vars

\* C2 witness: a call returned because its bundle existed, for a post with
\* assets to fetch.
C2_Witness ==
  \E w \in Workers :
    /\ wk[w].existed /\ wk[w].st = "done"
    /\ PostTable[wk[w].post].photos > 0
    /\ DirPath(dl_path, wk[w].post) \in DOMAIN disk

\* C3 (as claimed): when pool.map ends for a page one of whose posts failed,
\* main goes on to the end-of-walk test, so the rest of the feed and the
\* next feed are still processed.
C3_ItemFailureDoesNotStopWalk ==
  [][(pc = "map" /\ pc' # "map" /\ mapfailed) => pc' = "check"]_vars

\* C4: when download_post has ended because download_media raised, the
\* post's final bundle path does not exist.
C4_MediaFailureLeavesNoBundle ==
  \A w \in Workers :
    (wk[w].mediaFailed /\ wk[w].st \in {"done", "failed"})
      => DirPath(dl_path, wk[w].post) \notin DOMAIN disk

\* C4 witness: download_media raised on the second asset of a post, after
\* the first was written to staging.
C4_Witness ==
  \E w \in Workers : wk[w].mediaFailed /\ wk[w].st = "failed" /\ wk[w].nreq >= 2

\* C5 (as claimed): with a budget B, no page is requested once the pages
\* returned so far hold B posts or more; and a walk whose page requests all
\* succeeded is not over while fewer than B posts were returned and the
\* server has not signalled the end.
C5_BudgetStopsAndOnlyBudgetStops ==
  \A f \in Feeds :
    LET reqs == Reqs(pagelog, f)
    IN  (BudgetActive(f) /\ reqs # <<>>) =>
          /\ \A k \in 2..Len(reqs) : Cum(reqs, k - 1) < Budget(f)
          /\ (Stopped /\ num_processes >= 1 /\ \A k \in 1..Len(reqs) : reqs[k].ok)
               => (Cum(reqs, Len(reqs)) >= Budget(f) \/ reqs[Len(reqs)].ended)

\* C6 (as claimed): without budget, a walk whose page requests all succeeded
\* ends with the first page that has isEnded set, and has by then called
\* download_post exactly once for every post of the pages it got.
C6_WalkEndsAtFirstEndedPage ==
  \A f \in Feeds :
    LET reqs == Reqs(pagelog, f)
    IN  (NoBudget(f) /\ reqs # <<>> /\ Stopped /\ num_processes >= 1
           /\ \A k \in 1..Len(reqs) : reqs[k].ok) =>
          /\ reqs[Len(reqs)].ended
          /\ \A k \in 1..(Len(reqs) - 1) : ~reqs[k].ended
          /\ \A j \in 1..Cum(reqs, Len(reqs)) :
               FeedPosts[f][j] \in DOMAIN calls /\ calls[FeedPosts[f][j]] = 1

\* C7: a worker is inside download_post only while main waits in pool.map,
\* and only for a post of the page main holds; so at every page request all
\* workers of the earlier pages have finished.
C7_PageBarrier ==
  \A w \in Workers :
    Busy(w) => /\ pc = "map"
               /\ \E j \in 1..Len(page.posts) : page.posts[j] = wk[w].post

\* C7 witness: two workers are inside download_post for the second page of
\* a walk.
C7_Witness ==
  /\ Len(Reqs(pagelog, Artist)) >= 2
  /\ \A w \in 1..2 : Busy(w)

\* C8: a failed page request is the last page request of the run, main does
\* not get past it, and the process exits with a status other than zero; a
\* run that left every walk through break exits with status zero.
C8_PageFailureIsFatal ==
  /\ \A k \in 1..Len(pagelog) :
       ~pagelog[k].ok => (k = Len(pagelog) /\ Stopped /\ done # Feeds)
  /\ (pc = "exited" /\ \E k \in 1..Len(pagelog) : ~pagelog[k].ok) => exitcode # 0
  /\ (pc = "exited" /\ done = Feeds) => exitcode = 0

\* C8 witness: the second page request of a walk failed and the process
\* has exited.
C8_Witness ==
  /\ pc = "exited"
  /\ Len(pagelog) >= 2
  /\ ~pagelog[Len(pagelog)].ok
  /\ exitcode = 1

\* C9: a later run on the disk, configuration and feed of the first ends
\* with the bundles the first run left, and requests no asset and no detail
\* record of a post the first run published.
C9_SecondRunChangesNothing ==
  run >= 2 =>
    /\ pc = "exited" => disk = disk1
    /\ \A d \in Dirs, p \in PostIds :
         DirPath(d, p) \in DOMAIN disk1 => fetched \cap PostUrls(p) = {}

\* C9 witness: the second run has exited after walking pages whose posts
\* the first run had published.
C9_Witness ==
  /\ run = 2
  /\ pc = "exited"
  /\ Cardinality(DOMAIN disk1) >= 2
  /\ Cardinality(DOMAIN calls) >= 2

\* C10 (as claimed): once the program has met an option that is missing or
\* malformed, it has issued no network request.
BadOption(k) ==
  \/ k \in {"file", "numProcesses", "cookiesFile", "artist",
            "artistDownloadPath", "momentsDownloadPath"} /\ cfg[k] = NoneV
  \/ k \in {"numProcesses", "recentArtist", "recentMoments"} /\ cfg[k].kind = "str"

C10_ConfigErrorBeforeNetwork ==
  (run = 1 /\ \E k \in Options : BadOption(k)) => NoNetworkYet

\* C11 (as claimed): with numProcesses absent, 0 or 1 in config.yml the run
\* does not fail over the option: main gets from reading the configuration
\* to init_session, and from Pool(num_processes) into pool.map.
C11_ConcurrencyOptionNeverFails ==
  [][ cfg'["numProcesses"] \in {NoneV, IntV(0), IntV(1)} =>
        /\ (pc = "read_config" /\ cfg'["file"] # NoneV) => pc' = "init_session"
        /\ pc = "pool" => pc' = "map"
    ]_vars

\* C12 (as claimed): the extension of an asset's file is what follows the
\* final '.' of the URL's path, and an asset whose path has no '.' is not
\* stored under any extension.
PathDots(u) == {k \in 1..Len(u.path) : u.path[k] = "."}
PathSuffix(u) ==
  SubSeq(u.path, (CHOOSE k \in PathDots(u) : \A j \in PathDots(u) : j <= k) + 1, Len(u.path))

C12_ExtensionIsSuffixOfPath ==
  reply.kind = "media" =>
    IF PathDots(probe) = {}
      THEN ~reply.stored
      ELSE PathSuffix(probe) # <<>> => (reply.matched /\ reply.ext = PathSuffix(probe))

\* What the claims expect of the bundle of each post: the directory name,
\* the names of its files and, for each media file, the URL it holds.
BundleOf ==
  [p \in PostIds |-> PostTable[p].date \o "_" \o PostTable[p].id \o "_" \o PostTable[p].user]
VideosOf == [p \in PostIds |-> IF PostTable[p].hasVideos THEN PostTable[p].videos ELSE 0]
ImgName(p, i) == BundleOf[p] \o "_img0" \o ToString(i) \o ".jpg"
VidName(p, i) == BundleOf[p] \o "_vid0" \o ToString(i) \o ".mp4"
MediaOf ==
  [p \in PostIds |->
     {<<ImgName(p, i), <<PostTable[p].id, "photo", i>> >> : i \in 0..(PostTable[p].photos - 1)}
       \cup {<<VidName(p, i), <<PostTable[p].id, "video", i>> >> : i \in 0..(VideosOf[p] - 1)}]
NamesOf ==
  [p \in PostIds |-> {m[1] : m \in MediaOf[p]} \cup {BundleOf[p] \o "_content.txt"}]

\* C13: every directory published in a destination directory is named
\* {YYMMDD}_{id}_{author} after one post, a function of these three fields
\* alone, and for that post's n photos and m videos holds exactly the files
\* {name}_img00 .. img(n-1), {name}_vid00 .. vid(m-1) (each with its URL's
\* extension) and {name}_content.txt, where the file of index i holds what
\* the i-th photo (video) URL of the post's list served.
C13_BundleNamesFollowSourceOrder ==
  \A path \in DOMAIN disk :
    \E p \in PostIds :
      /\ path[2] = BundleOf[p]
      /\ {f.name : f \in disk[path]} = NamesOf[p]
      /\ Cardinality(disk[path]) = PostTable[p].photos + VideosOf[p] + 1
      /\ {<<f.name, f.src>> : f \in {g \in disk[path] : "src" \in DOMAIN g}} = MediaOf[p]

\* C13 witness: the bundle of a post with two photos and the bundle of a
\* post with a photo and a video are published.
C13_Witness ==
  /\ <<"posts", "210504_11_Bob">> \in DOMAIN disk
  /\ <<"posts", "210503_12_Ann">> \in DOMAIN disk
  /\ Cardinality(disk[<<"posts", "210504_11_Bob">>]) = 3
  /\ Cardinality(disk[<<"posts", "210503_12_Ann">>]) = 3

\* The texts of the content files of a published directory.
ContentTexts(path) == {f.text : f \in {g \in disk[path] : "text" \in DOMAIN g}}

\* The three parts of the content file of each post as the claim has them,
\* and with a colon behind the second.
ContentClaimed ==
  [p \in PostIds |->
     << "https://weverse.io/artist/artist/" \o PostTable[p].id,
        PostTable[p].user \o " (" \o PostTable[p].ts \o ")",
        IF PostTable[p].hasBody THEN PostTable[p].body ELSE "" >>]
ContentWithColon ==
  [p \in PostIds |-> [ContentClaimed[p] EXCEPT ![2] = @ \o ":"]]

\* C14 (as claimed): the content file of a published bundle holds the URL
\* https://weverse.io/<artist in lower case>/artist/<id>, then exactly
\* {author} ({timestamp}), then the body, empty for a post without one.
C14_ContentSecondLineIsAuthorAndTime ==
  \A path \in DOMAIN disk :
    \E p \in PostIds : path[2] = BundleOf[p] /\ ContentTexts(path) = {ContentClaimed[p]}

\* C14 (amended): as above, but the second line is {author} ({timestamp})
\* followed by a colon.
C14_ContentSecondLineEndsWithColon ==
  \A path \in DOMAIN disk :
    \E p \in PostIds : path[2] = BundleOf[p] /\ ContentTexts(path) = {ContentWithColon[p]}

\* C14 witness: published are the bundle of a post with a body and the
\* bundle of a post without one, under an artist configured as "Artist".
C14_Witness ==
  /\ cfg["artist"] = StrV("Artist")
  /\ <<"posts", BundleOf[1]>> \in DOMAIN disk
  /\ <<"posts", BundleOf[2]>> \in DOMAIN disk
  /\ \E t \in ContentTexts(<<"posts", BundleOf[1]>>) : t[3] = "hello"
  /\ \E t \in ContentTexts(<<"posts", BundleOf[2]>>) : t[3] = ""

\* C15 (as claimed): when the process has exited, after completion or after
\* an error, it waited for Enter unless config.yml sets keepOpen to false,
\* and did not wait when config.yml sets keepOpen to false.
C15_PromptFollowsConfiguredFlag ==
  pc = "exited" => (prompted <=> cfg["keepOpen"] # BoolV(FALSE))

\* C16 (as claimed): with at least one process and a budget that is a
\* number or absent, a walk whose page requests were all answered has left
\* its loop through break by the time the run stops; and once a walk has
\* left its loop it stays left for the rest of the run, main is nowhere in
\* that loop again, and no further page of that feed is requested.
InWalk(f) == feed = f /\ pc \in {"fetch", "pool", "map", "check"}

C16_WalkReachesDoneOnce ==
  [][ \A f \in Feeds :
        /\ (Stopped' /\ Reqs(pagelog', f) # <<>>
              /\ num_processes' >= 1 /\ cfg'[BudgetOption(f)].kind # "str"
              /\ \A k \in 1..Len(Reqs(pagelog', f)) : Reqs(pagelog', f)[k].ok)
             => f \in done'
        /\ (f \in done /\ run' = run)
             => (f \in done' /\ ~InWalk(f)' /\ Reqs(pagelog', f) = Reqs(pagelog, f))
    ]_vars

\* C17: the first page request of a walk carries the empty cursor, also
\* when another feed was walked before it, and every later page request of
\* the walk carries the lastId of the answer to the walk's request before.
C17_CursorIsPreviousLastId ==
  \A f \in Feeds :
    LET reqs == Reqs(pagelog, f)
    IN  reqs # <<>> =>
          /\ reqs[1].from = ""
          /\ \A k \in 2..Len(reqs) : reqs[k].from = reqs[k - 1].lastId

\* C17 witness: both walks have requested a second page, the artist walk
\* first, and the cursors they hold differ.
C17_Witness ==
  /\ Len(Reqs(pagelog, Artist)) >= 2
  /\ Len(Reqs(pagelog, Moments)) >= 2
  /\ Reqs(pagelog, Artist)[2].from = "11"
  /\ Reqs(pagelog, Moments)[2].from = "21"

\* C18 (as claimed): a call of download_post for a post with the key
\* 'attachedVideos' requests the post's detail record exactly once, when
\* all photos of the post have been requested and none of its videos; a
\* call for a post without the key never requests it; and when pool.map
\* ends for a page on which only that request failed, main goes on with
\* the walk.
PhotoUrls(p) == {PhotoUrl(p, i) : i \in 0..(PostTable[p].photos - 1)}
VideoUrls(p) == {VideoUrl(p, i) : i \in 0..(PostTable[p].videos - 1)}
DetailFailed(w) ==
  /\ wk[w].st = "failed"
  /\ wk[w].ndetail = 1
  /\ DetailUrl(wk[w].post) \in DOMAIN assets
  /\ assets[DetailUrl(wk[w].post)] = "bad"

C18_OneDetailRequestAbortsItemOnly ==
  [][ /\ \A w \in Workers :
           wk'[w].post # 0 =>
             /\ wk'[w].ndetail <= 1
             /\ ~PostTable[wk'[w].post].hasVideos => wk'[w].ndetail = 0
             /\ wk'[w].ndetail > wk[w].ndetail =>
                  /\ PhotoUrls(wk[w].post) \subseteq fetched
                  /\ VideoUrls(wk[w].post) \cap fetched' = {}
             /\ (fetched' \ fetched) \cap VideoUrls(wk'[w].post) # {} => wk[w].ndetail = 1
             /\ (PostTable[wk'[w].post].hasVideos /\ ~wk'[w].existed
                   /\ wk'[w].st \in {"videos", "content", "move", "rename", "done"})
                  => wk'[w].ndetail = 1
      /\ (/\ pc = "map" /\ pc' # "map"
          /\ \E w \in Workers : DetailFailed(w)
          /\ \A v \in Workers : wk[v].st = "failed" => DetailFailed(v))
           => pc' = "check"
    ]_vars

\* How often this run called download_post for the posts of a list.
RECURSIVE Dispatched(_)
Dispatched(posts) ==
  IF posts = <<>> THEN 0
  ELSE (IF Head(posts) \in DOMAIN calls THEN calls[Head(posts)] ELSE 0)
         + Dispatched(Tail(posts))

\* C19: in a walk with a budget B > 0 every page request asks for B minus
\* the number of posts the walk's earlier answers held; and when no answer
\* held more posts than its request asked for, the remaining budget is not
\* negative and download_post was called for at most B posts of the feed.
C19_PageSizeIsRemainingBudget ==
  \A f \in Feeds :
    LET reqs == Reqs(pagelog, f)
    IN  (BudgetActive(f) /\ Budget(f) > 0 /\ reqs # <<>>) =>
          /\ \A k \in 1..Len(reqs) : reqs[k].size = IntV(Budget(f) - Cum(reqs, k - 1))
          /\ (\A k \in 1..Len(reqs) : reqs[k].n <= reqs[k].size.n) =>
               /\ feed = f => remain = IntV(Budget(f) - Cum(reqs, Len(reqs)))
               /\ Budget(f) - Cum(reqs, Len(reqs)) >= 0
               /\ Dispatched(FeedPosts[f]) <= Budget(f)

\* C19 witness: with budget 2 the artist walk asked for 2 posts, got one,
\* asked for 1, got one, and ended with both posts handed to download_post.
C19_Witness ==
  LET reqs == Reqs(pagelog, Artist)
  IN  /\ BudgetActive(Artist) /\ Budget(Artist) = 2
      /\ Len(reqs) = 2
      /\ reqs[1].size = IntV(2) /\ reqs[1].n = 1
      /\ reqs[2].size = IntV(1) /\ reqs[2].n = 1
      /\ Artist \in done
      /\ Dispatched(FeedPosts[Artist]) = 2

\* C20 (as claimed): two items of one destination directory with different
\* ids have different bundle paths, so the second is not taken for
\* downloaded on account of the first's bundle, and the two are not renamed
\* to one path.
C20_DifferentIdsDifferentPaths ==
  (reply.kind = "paths" /\ probe.a.id # probe.b.id) =>
    (reply.a # reply.b /\ ~reply.bSkipped)

\* C20 (amended): the same for two items whose ids are made of decimal
\* digits only, whatever their authors' nicknames hold.
IsNumeric(id) == \A k \in 1..Len(id) : id[k] \in Digits

C20_DifferentNumericIdsDifferentPaths ==
  (reply.kind = "paths" /\ probe.a.id # probe.b.id
     /\ IsNumeric(probe.a.id) /\ IsNumeric(probe.b.id)) =>
    (reply.a # reply.b /\ ~reply.bSkipped)

\* C20 witness: the paths of two items of one day with the numeric ids 1
\* and 12, the first by an author with '_' in the nickname, whose names
\* differ only in where the separators stand.
C20_Witness ==
  /\ reply.kind = "paths"
  /\ probe.a.date = probe.b.date
  /\ probe.a.id = <<"1">> /\ probe.a.user = <<"2", "_", "B">>
  /\ probe.b.id = <<"1", "2">> /\ probe.b.user = <<"B">>
  /\ reply.a # reply.b

====
